---- MODULE Spec2Model ----
(***************************************************************************)
(* A model of trevorki/canoe-mapping: the helpers of src/map_utils.py      *)
(* (coordinate transforms, figure dimensions, geometry flattening, style   *)
(* resolution, scale bar) and the place loop of src/make_maps.py.          *)
(*                                                                         *)
(* Numbers.  The program computes on Python floats.  The model computes on *)
(* exact rationals [n, d] in lowest terms, one operator per arithmetic     *)
(* operation of the source, applied in the source's order.  Rounding of    *)
(* IEEE doubles is not modelled: every numeric statement below is a        *)
(* statement about the formulas the code evaluates.                        *)
(*                                                                         *)
(* Each helper has a specification of its own (SpecScale, SpecStyle, ...)  *)
(* whose Init draws the helper's arguments from bounded sets and whose     *)
(* actions call it; Spec is the script make_maps.py.                       *)
(***************************************************************************)
EXTENDS Integers, Sequences, FiniteSets

VARIABLES
    \* get_scale_dimesion_km / add_scale_bar
    plot_width_km, max_width_pct, scale_dimesion_km, bar, scale_pc,
    \* the data ranges passed to add_scale_bar and calculate_plot_dimensions
    dx, dy,
    \* get_style
    element, style, opposite_style, style_pc,
    \* extract_coords / extract_polygon_coords
    geom, coords, geom_pc,
    \* xy_to_fig / fig_to_xy
    tr_in, x_min, x_max, y_min, y_max, tr_mid, tr_out, tr_pc,
    \* calculate_plot_dimensions
    plot_max_dim, figsize, dims_pc,
    \* make_maps.py: the configuration, the script's position and its variables
    places, background, stamen_key_in_env, tiles_source, pc, place_idx, elements, canvas,
    \* the files of the maps folder, the places saved so far, the exception
    files, saved, error

scaleVars == <<plot_width_km, max_width_pct, scale_dimesion_km, bar, scale_pc>>
rangeVars == <<dx, dy>>
trVars == <<tr_in, x_min, x_max, y_min, y_max, tr_mid, tr_out, tr_pc>>
dimsVars == <<plot_max_dim, figsize, dims_pc>>
mainVars == <<places, background, stamen_key_in_env, tiles_source, pc, place_idx, elements,
              canvas, files, saved, error>>
styleVars == <<element, style, opposite_style, style_pc>>
geomVars == <<geom, coords, geom_pc>>

vars == <<scaleVars, rangeVars, styleVars, geomVars, trVars, dimsVars, mainVars>>

-----------------------------------------------------------------------------
(* Rational arithmetic: the float operators of the source, without rounding *)

Abs(i) == IF i < 0 THEN -i ELSE i

RECURSIVE GCD(_, _)
GCD(a, b) == IF b = 0 THEN a ELSE GCD(b, a % b)

\* the rational n/d (d # 0) in lowest terms with a positive denominator
Rat(n, d) ==
    LET g == GCD(Abs(n), Abs(d))
        s == IF d < 0 THEN -1 ELSE 1
    IN  [n |-> (s * n) \div g, d |-> (s * d) \div g]

RInt(i) == [n |-> i, d |-> 1]
RAdd(a, b) == Rat(a.n * b.d + b.n * a.d, a.d * b.d)
RSub(a, b) == Rat(a.n * b.d - b.n * a.d, a.d * b.d)
RMul(a, b) == Rat(a.n * b.n, a.d * b.d)
\* a / b for b # 0; the callers raise ZeroDivisionError when b = 0
RDiv(a, b) == Rat(a.n * b.d, a.d * b.n)
RLe(a, b) == a.n * b.d <= b.n * a.d
RLt(a, b) == a.n * b.d < b.n * a.d
RIsZero(a) == a.n = 0
RMax(a, b) == IF RLt(a, b) THEN b ELSE a
Positive(a) == a.n > 0

\* a value a variable holds before the code assigns it
None == [kind |-> "None"]

\* the variables of a helper the specification at hand does not call
IdleScale ==
    /\ plot_width_km = None /\ max_width_pct = None
    /\ scale_dimesion_km = None /\ bar = None /\ scale_pc = "idle"
IdleRange ==
    /\ dx = None /\ dy = None
IdleStyle ==
    /\ element = None /\ style = None /\ opposite_style = None /\ style_pc = "idle"
IdleGeom ==
    /\ geom = None /\ coords = None /\ geom_pc = "idle"
IdleTr ==
    /\ tr_in = None /\ x_min = None /\ x_max = None /\ y_min = None /\ y_max = None
    /\ tr_mid = None /\ tr_out = None /\ tr_pc = "idle"
IdleDims ==
    /\ plot_max_dim = None /\ figsize = None /\ dims_pc = "idle"
IdleMain ==
    /\ places = None /\ background = None /\ stamen_key_in_env = None
    /\ tiles_source = None /\ pc = "idle" /\ place_idx = 0 /\ elements = None
    /\ canvas = None /\ files = {} /\ saved = <<>> /\ error = None

\* what a call ends with: a returned value or a raised exception
Return(v) == [kind |-> "return", value |-> v]
Raise(e) == [kind |-> "raise", exc |-> e]

-----------------------------------------------------------------------------
(* Scale bar: get_scale_dimesion_km and add_scale_bar                      *)

\* map_utils.py:276, in kilometres
scale_dimesions ==
    << Rat(1, 10), Rat(2, 10), Rat(5, 10), RInt(1), RInt(2), RInt(5), RInt(10),
       RInt(20), RInt(50), RInt(100), RInt(200), RInt(500) >>

\* the for loop of map_utils.py:278-280 from position i of the reversed list:
\* break at the first member <= max; when the loop runs out, the loop variable
\* keeps the last member it was bound to
RECURSIVE ScanAscending(_, _)
ScanAscending(i, max_scale_dimension) ==
    IF RLe(scale_dimesions[i], max_scale_dimension) THEN scale_dimesions[i]
    ELSE IF i = Len(scale_dimesions) THEN scale_dimesions[i]
    ELSE ScanAscending(i + 1, max_scale_dimension)

RECURSIVE ScanReversed(_, _)
ScanReversed(i, max_scale_dimension) ==
    IF RLe(scale_dimesions[i], max_scale_dimension) THEN scale_dimesions[i]
    ELSE IF i = 1 THEN scale_dimesions[i]
    ELSE ScanReversed(i - 1, max_scale_dimension)

\* faulty variant: the list is scanned as written, without [::-1]
get_scale_dimesion_km_unreversed(w, p) == ScanAscending(1, RMul(w, p))

get_scale_dimesion_km(w, p) ==
    LET max_scale_dimension == RMul(w, p)
    IN  ScanReversed(Len(scale_dimesions), max_scale_dimension)

\* 0.0025
BarHeightFraction == Rat(25, 10000)

\* faulty variant: the width is not divided by the map's width in kilometres
add_scale_bar_unscaled(p, w, ddx, ddy) ==
    LET s == get_scale_dimesion_km(w, p)
    IN  Return([scale_dimesion_km |-> s,
                width  |-> RMul(s, ddx),
                height |-> RMul(RMax(ddx, ddy), BarHeightFraction)])

\* add_scale_bar(ax, max_width_pct, anchor, plot_width_km, dx, dy, text_size):
\* the rectangle of lines 236-238; the division by a plot_width_km of 0 raises
\* ZeroDivisionError
add_scale_bar(p, w, ddx, ddy) ==
    LET s == get_scale_dimesion_km(w, p)
    IN  IF RIsZero(w) THEN Raise("ZeroDivisionError")
        ELSE Return([scale_dimesion_km |-> s,
                     width  |-> RMul(RDiv(s, w), ddx),
                     height |-> RMul(RMax(ddx, ddy), BarHeightFraction)])

\* bounds of the arguments
MaxMantissa == 9
MaxExp == 4
PctSteps == 4
MaxExtent == 3

RECURSIVE Pow10(_)
Pow10(e) == IF e = 0 THEN 1 ELSE 10 * Pow10(e - 1)

\* map widths from 0 km to MaxMantissa * 10^MaxExp / 10 km
PlotWidths == { Rat(m * Pow10(e), 10) : m \in 0..MaxMantissa, e \in 0..MaxExp }
\* fractions in (0, 1], with the 0.15 of make_maps.py:125
WidthPcts == { Rat(15, 100) } \cup { Rat(k, PctSteps) : k \in 1..PctSteps }
DataRanges == { RInt(k) : k \in 1..MaxExtent }

InitScale ==
    /\ plot_width_km \in PlotWidths
    /\ max_width_pct \in WidthPcts
    /\ dx \in DataRanges
    /\ dy \in DataRanges
    /\ scale_dimesion_km = None
    /\ bar = None
    /\ scale_pc = "start"
    /\ IdleStyle /\ IdleGeom /\ IdleTr /\ IdleDims /\ IdleMain

\* a call of get_scale_dimesion_km(plot_width_km, max_width_pct)
GetScaleDimesionKm ==
    /\ scale_pc = "start"
    /\ scale_dimesion_km' = get_scale_dimesion_km(plot_width_km, max_width_pct)
    /\ scale_pc' = "quantized"
    /\ UNCHANGED <<plot_width_km, max_width_pct, dx, dy, bar>>
    /\ UNCHANGED <<styleVars, geomVars, trVars, dimsVars, mainVars>>

\* a call of add_scale_bar(ax, max_width_pct, anchor, plot_width_km, dx, dy, ..)
AddScaleBar ==
    /\ scale_pc = "start"
    /\ LET r == add_scale_bar(max_width_pct, plot_width_km, dx, dy)
       IN  IF r.kind = "raise"
           THEN /\ bar' = r
                /\ scale_pc' = "failed"
                /\ UNCHANGED scale_dimesion_km
           ELSE /\ scale_dimesion_km' = r.value.scale_dimesion_km
                /\ bar' = [width |-> r.value.width, height |-> r.value.height]
                /\ scale_pc' = "drawn"
    /\ UNCHANGED <<plot_width_km, max_width_pct, dx, dy>>
    /\ UNCHANGED <<styleVars, geomVars, trVars, dimsVars, mainVars>>

NextScale == GetScaleDimesionKm \/ AddScaleBar

SpecScale == InitScale /\ [][NextScale]_vars

ScaleSet == { scale_dimesions[i] : i \in DOMAIN scale_dimesions }
MaxScaleKm == RMul(plot_width_km, max_width_pct)
Smallest == Rat(1, 10)

\* C1: get_scale_dimesion_km returns a member of the fixed set: the largest
\* member <= plot_width_km * max_width_pct when there is one, and 0.1, returned
\* normally, when plot_width_km * max_width_pct < 0.1.
C1_QuantizerResult ==
    scale_pc = "quantized" =>
        /\ scale_dimesion_km \in ScaleSet
        /\ (\E s \in ScaleSet : RLe(s, MaxScaleKm)) =>
              /\ RLe(scale_dimesion_km, MaxScaleKm)
              /\ \A s \in ScaleSet : RLe(s, MaxScaleKm) => RLe(s, scale_dimesion_km)
        /\ RLt(MaxScaleKm, Smallest) => scale_dimesion_km = Smallest

\* a map 0.3 km wide at 25 %: no member fits and 0.1 is returned
C1_Witness ==
    /\ scale_pc = "quantized"
    /\ plot_width_km = Rat(3, 10)
    /\ max_width_pct = Rat(1, 4)
    /\ RLt(MaxScaleKm, Smallest)
    /\ scale_dimesion_km = Smallest

-----------------------------------------------------------------------------
(* Style resolution: get_style                                             *)

\* tag_styles.json (make_maps.py:38-39): tag key -> tag value -> style name
tag_styles ==
    [ natural  |-> [water |-> "lake", peak |-> "mountain"],
      waterway |-> [stream |-> "creek"],
      highway  |-> [path |-> "trail"] ]

\* the style table (make_maps.py:60): style name -> keyword arguments of ax.plot
styles ==
    [ lake     |-> [color |-> "blue", linewidth |-> 1],
      mountain |-> [color |-> "brown", marker |-> "^"],
      creek    |-> [color |-> "cyan", linewidth |-> 1],
      trail    |-> [color |-> "red", linestyle |-> "dashed"] ]

\* the {} of map_utils.py:142
EmptyStyle == [k \in {} |-> None]

\* whether the entry <<key, value>> passes the two tests of map_utils.py:144-145
TagMatches(entry) ==
    /\ entry[1] \in DOMAIN tag_styles
    /\ entry[2] \in DOMAIN tag_styles[entry[1]]

\* the loop of map_utils.py:143-146 from entry i on, with the style found so far
RECURSIVE GetStyleFirstFrom(_, _, _)
GetStyleFirstFrom(e, i, found) ==
    IF i > Len(e) THEN found
    ELSE IF TagMatches(e[i]) /\ found = EmptyStyle
         THEN GetStyleFirstFrom(e, i + 1, styles[tag_styles[e[i][1]][e[i][2]]])
         ELSE GetStyleFirstFrom(e, i + 1, found)

RECURSIVE GetStyleFrom(_, _, _)
GetStyleFrom(e, i, found) ==
    IF i > Len(e) THEN found
    ELSE IF TagMatches(e[i])
         THEN GetStyleFrom(e, i + 1, styles[tag_styles[e[i][1]][e[i][2]]])
         ELSE GetStyleFrom(e, i + 1, found)

\* faulty variant: a style once found is kept (first match wins)
get_style_first(e) == GetStyleFirstFrom(e, 1, EmptyStyle)

\* get_style(element, tag_styles, styles); element is the feature's mapping as
\* the sequence of its <<key, value>> entries in iteration order
get_style(e) == GetStyleFrom(e, 1, EmptyStyle)

MaxTags == 3

\* the columns of a fetched feature and the values they hold
TagKeys == {"natural", "waterway", "highway", "name"}
TagValues == {"water", "stream", "path", "peak"}

\* mappings: sequences of entries with pairwise distinct keys
Elements ==
    { e \in UNION { [1..n -> TagKeys \X TagValues] : n \in 0..MaxTags } :
        \A i, j \in DOMAIN e : i # j => e[i][1] # e[j][1] }

Reverse(s) == [i \in 1..Len(s) |-> s[Len(s) + 1 - i]]

InitStyle ==
    /\ element \in Elements
    /\ style = None
    /\ opposite_style = None
    /\ style_pc = "start"
    /\ IdleScale /\ IdleRange /\ IdleGeom /\ IdleTr /\ IdleDims /\ IdleMain

\* a call of get_style(element, tag_styles, styles)
GetStyle ==
    /\ style_pc = "start"
    /\ style' = get_style(element)
    /\ style_pc' = "styled"
    /\ UNCHANGED <<element, opposite_style>>
    /\ UNCHANGED <<scaleVars, rangeVars, geomVars, trVars, dimsVars, mainVars>>

\* a call of get_style on a feature with the same entries in the opposite order
GetStyleOpposite ==
    /\ style_pc = "styled"
    /\ opposite_style' = get_style(Reverse(element))
    /\ style_pc' = "both"
    /\ UNCHANGED <<element, style>>
    /\ UNCHANGED <<scaleVars, rangeVars, geomVars, trVars, dimsVars, mainVars>>

NextStyle == GetStyle \/ GetStyleOpposite

SpecStyle == InitStyle /\ [][NextStyle]_vars

MatchingEntries(e) == { i \in DOMAIN e : TagMatches(e[i]) }
LastOf(S) == CHOOSE i \in S : \A j \in S : j <= i
StyleOfEntry(entry) == styles[tag_styles[entry[1]][entry[2]]]

\* C3: get_style returns the style of the LAST entry, in mapping order, whose
\* key is in the tag-to-style table and whose value is a sub-key under it, and
\* the empty style when no entry matches.
C3_LastMatchWins ==
    style_pc \in {"styled", "both"} =>
        IF MatchingEntries(element) = {}
        THEN style = EmptyStyle
        ELSE style = StyleOfEntry(element[LastOf(MatchingEntries(element))])

\* natural=water before waterway=stream resolves to the creek style, and the
\* same two tags in the opposite order resolve to the lake style
C3_Witness ==
    /\ style_pc = "both"
    /\ element = << <<"natural", "water">>, <<"waterway", "stream">> >>
    /\ style = styles["creek"]
    /\ opposite_style = styles["lake"]

-----------------------------------------------------------------------------
(* Geometry flattening: extract_coords and extract_polygon_coords          *)

MaxHoles == 2
MaxMembers == 2

\* coordinate lists
PointCoords == { << <<0, 0>> >>, << <<2, 1>> >> }
LineCoords == { << <<0, 0>>, <<1, 1>> >>, << <<0, 0>>, <<1, 0>>, <<2, 2>> >> }
Rings == { << <<0, 0>>, <<4, 0>>, <<0, 4>>, <<0, 0>> >>,
           << <<1, 1>>, <<2, 1>>, <<1, 2>>, <<1, 1>> >> }

SeqsUpTo(S, n) == UNION { [1..k -> S] : k \in 0..n }

Polygons ==
    { [geom_type |-> "Polygon", exterior |-> ext, interiors |-> holes] :
        ext \in Rings, holes \in SeqsUpTo(Rings, MaxHoles) }
MultiPolygons ==
    { [geom_type |-> "MultiPolygon", geoms |-> ps] : ps \in SeqsUpTo(Polygons, MaxMembers) }
LineStrings == { [geom_type |-> "LineString", coords |-> c] : c \in LineCoords }
\* the geometry kinds extract_coords has a branch for
Supported ==
    { [geom_type |-> "Point", coords |-> c] : c \in PointCoords }
    \cup LineStrings \cup Polygons \cup MultiPolygons
\* shapely geometries of the other kinds
Unsupported ==
    { [geom_type |-> "MultiLineString", geoms |-> ls] :
        ls \in SeqsUpTo(LineStrings, 2) \ {<<>>} }
    \cup { [geom_type |-> "MultiPoint", geoms |-> << <<0, 0>>, <<2, 1>> >>] }
    \cup { [geom_type |-> "GeometryCollection", geoms |-> <<g>>] : g \in LineStrings }
Geometries == Supported \cup Unsupported

\* faulty variant: the interiors are left out
extract_polygon_coords_exterior_only(g) ==
    IF g.geom_type = "Polygon" THEN Return(<<g.exterior>>) ELSE Raise("ValueError")

\* extract_polygon_coords(geom): the exterior, then each interior
extract_polygon_coords(g) ==
    IF g.geom_type = "Polygon"
    THEN Return(<<g.exterior>> \o g.interiors)
    ELSE Raise("ValueError")

\* the loop of map_utils.py:111-112 from member i on; an exception of
\* extract_polygon_coords leaves the loop and extract_coords
RECURSIVE ExtendFrom(_, _, _)
ExtendFrom(polygons, i, acc) ==
    IF i > Len(polygons) THEN Return(acc)
    ELSE LET r == extract_polygon_coords(polygons[i])
         IN  IF r.kind = "raise" THEN r
             ELSE ExtendFrom(polygons, i + 1, acc \o r.value)

\* extract_coords(geom)
extract_coords(g) ==
    IF g.geom_type \in {"Point", "LineString"} THEN Return(<<g.coords>>)
    ELSE IF g.geom_type = "Polygon"
    THEN LET r == extract_polygon_coords(g)
         IN  IF r.kind = "raise" THEN r ELSE Return(<<>> \o r.value)
    ELSE IF g.geom_type = "MultiPolygon" THEN ExtendFrom(g.geoms, 1, <<>>)
    ELSE Return(<<>>)

InitGeom ==
    /\ geom \in Geometries
    /\ coords = None
    /\ geom_pc = "start"
    /\ IdleScale /\ IdleRange /\ IdleStyle /\ IdleTr /\ IdleDims /\ IdleMain

\* a call of extract_coords(geom)
ExtractCoords ==
    /\ geom_pc = "start"
    /\ coords' = extract_coords(geom)
    /\ geom_pc' = "extracted"
    /\ UNCHANGED geom
    /\ UNCHANGED <<scaleVars, rangeVars, styleVars, trVars, dimsVars, mainVars>>

\* a call of extract_polygon_coords(geom)
ExtractPolygonCoords ==
    /\ geom_pc = "start"
    /\ coords' = extract_polygon_coords(geom)
    /\ geom_pc' = "polygon_extracted"
    /\ UNCHANGED geom
    /\ UNCHANGED <<scaleVars, rangeVars, styleVars, trVars, dimsVars, mainVars>>

NextGeom == ExtractCoords \/ ExtractPolygonCoords

SpecGeom == InitGeom /\ [][NextGeom]_vars

\* the rings of one polygon: its exterior first, then its holes in their order
RingsOf(p) == [i \in 1..(1 + Len(p.interiors)) |->
                  IF i = 1 THEN p.exterior ELSE p.interiors[i - 1]]

\* the number of rings of the members before member m
RECURSIVE RingsBefore(_, _)
RingsBefore(ps, m) ==
    IF m = 1 THEN 0 ELSE RingsBefore(ps, m - 1) + 1 + Len(ps[m - 1].interiors)

\* C4: extract_coords returns one ring for a Point or LineString (its own
\* coordinate list), k+1 rings for a Polygon with k holes (exterior first, then
\* the holes in order), and for a MultiPolygon the members' rings concatenated
\* in member order, so the ring count is the sum over members of 1 + holes.
C4_RingStructure ==
    (geom_pc = "extracted" /\ geom \in Supported) =>
        /\ coords.kind = "return"
        /\ geom.geom_type \in {"Point", "LineString"} =>
              coords.value = <<geom.coords>>
        /\ geom.geom_type = "Polygon" =>
              /\ Len(coords.value) = Len(geom.interiors) + 1
              /\ coords.value = RingsOf(geom)
        /\ geom.geom_type = "MultiPolygon" =>
              /\ Len(coords.value) = RingsBefore(geom.geoms, Len(geom.geoms) + 1)
              /\ \A m \in DOMAIN geom.geoms :
                    \A i \in DOMAIN RingsOf(geom.geoms[m]) :
                        coords.value[RingsBefore(geom.geoms, m) + i]
                            = RingsOf(geom.geoms[m])[i]

\* a MultiPolygon of a polygon with one hole and a polygon with two: five rings
C4_Witness ==
    /\ geom_pc = "extracted"
    /\ geom.geom_type = "MultiPolygon"
    /\ Len(geom.geoms) = 2
    /\ Len(geom.geoms[1].interiors) = 1
    /\ Len(geom.geoms[2].interiors) = 2
    /\ coords.kind = "return"
    /\ Len(coords.value) = 5
    /\ coords.value[3] = geom.geoms[2].exterior

\* C5 as claimed: for a geometry of a kind outside {Point, LineString, Polygon,
\* MultiPolygon} extract_coords fails with an error instead of returning.
C5_UnsupportedGeometryRaises ==
    (geom_pc = "extracted" /\ geom \in Unsupported) => coords.kind = "raise"

-----------------------------------------------------------------------------
(* Plane <-> figure coordinates: xy_to_fig and fig_to_xy                   *)

\* faulty variant: a degenerate axis maps to 0 instead of dividing by zero
xy_to_fig_guarded(x, y, xmin, xmax, ymin, ymax) ==
    Return(<< IF RIsZero(RSub(xmax, xmin)) THEN RInt(0)
              ELSE RDiv(RSub(x, xmin), RSub(xmax, xmin)),
              IF RIsZero(RSub(ymax, ymin)) THEN RInt(0)
              ELSE RDiv(RSub(y, ymin), RSub(ymax, ymin)) >>)

\* xy_to_fig(x, y, x_min, x_max, y_min, y_max): line 53, then line 54; a float
\* division by zero raises ZeroDivisionError
xy_to_fig(x, y, xmin, xmax, ymin, ymax) ==
    IF RIsZero(RSub(xmax, xmin)) THEN Raise("ZeroDivisionError")
    ELSE LET x_fig == RDiv(RSub(x, xmin), RSub(xmax, xmin))
         IN  IF RIsZero(RSub(ymax, ymin)) THEN Raise("ZeroDivisionError")
             ELSE LET y_fig == RDiv(RSub(y, ymin), RSub(ymax, ymin))
                  IN  Return(<<x_fig, y_fig>>)

\* faulty variant: y is scaled by the x range
fig_to_xy_xrange(x_fig, y_fig, xmin, xmax, ymin, ymax) ==
    Return(<< RAdd(RMul(x_fig, RSub(xmax, xmin)), xmin),
              RAdd(RMul(y_fig, RSub(xmax, xmin)), ymin) >>)

\* fig_to_xy(x_fig, y_fig, x_min, x_max, y_min, y_max)
fig_to_xy(x_fig, y_fig, xmin, xmax, ymin, ymax) ==
    LET x == RAdd(RMul(x_fig, RSub(xmax, xmin)), xmin)
        y == RAdd(RMul(y_fig, RSub(ymax, ymin)), ymin)
    IN  Return(<<x, y>>)

MaxCoord == 2

\* coordinates of the point, in halves, and of the extent's edges
PointXs == { Rat(k, 2) : k \in (-2 * MaxCoord)..(2 * MaxCoord) }
PointYs == { Rat(k, 2) : k \in 0..(2 * MaxCoord) }
ExtentXs == { RInt(k) : k \in -1..MaxCoord }
ExtentYs == { RInt(k) : k \in 0..MaxCoord }

InitTr ==
    /\ tr_in \in PointXs \X PointYs
    /\ x_min \in ExtentXs /\ x_max \in ExtentXs
    /\ y_min \in ExtentYs /\ y_max \in ExtentYs
    /\ tr_mid = None
    /\ tr_out = None
    /\ tr_pc \in {"plane", "figure"}
    /\ IdleScale /\ IdleRange /\ IdleStyle /\ IdleGeom /\ IdleDims /\ IdleMain

\* a call of xy_to_fig: on the planar point given, or on the point fig_to_xy
\* returned
XyToFig ==
    /\ \/ /\ tr_pc = "plane"
          /\ LET r == xy_to_fig(tr_in[1], tr_in[2], x_min, x_max, y_min, y_max)
             IN  /\ tr_mid' = r
                 /\ tr_pc' = IF r.kind = "raise" THEN "failed" ELSE "plane_fig"
          /\ UNCHANGED tr_out
       \/ /\ tr_pc = "figure_plane"
          /\ LET r == xy_to_fig(tr_mid.value[1], tr_mid.value[2],
                                x_min, x_max, y_min, y_max)
             IN  /\ tr_out' = r
                 /\ tr_pc' = IF r.kind = "raise" THEN "failed_back"
                             ELSE "figure_plane_figure"
          /\ UNCHANGED tr_mid
    /\ UNCHANGED <<tr_in, x_min, x_max, y_min, y_max>>
    /\ UNCHANGED <<scaleVars, rangeVars, styleVars, geomVars, dimsVars, mainVars>>

\* a call of fig_to_xy: on the figure point given, or on the point xy_to_fig
\* returned
FigToXy ==
    /\ \/ /\ tr_pc = "figure"
          /\ tr_mid' = fig_to_xy(tr_in[1], tr_in[2], x_min, x_max, y_min, y_max)
          /\ tr_pc' = "figure_plane"
          /\ UNCHANGED tr_out
       \/ /\ tr_pc = "plane_fig"
          /\ tr_out' = fig_to_xy(tr_mid.value[1], tr_mid.value[2],
                                 x_min, x_max, y_min, y_max)
          /\ tr_pc' = "plane_fig_plane"
          /\ UNCHANGED tr_mid
    /\ UNCHANGED <<tr_in, x_min, x_max, y_min, y_max>>
    /\ UNCHANGED <<scaleVars, rangeVars, styleVars, geomVars, dimsVars, mainVars>>

NextTr == XyToFig \/ FigToXy

SpecTr == InitTr /\ [][NextTr]_vars

Degenerate == x_max = x_min \/ y_max = y_min

-----------------------------------------------------------------------------
(* Figure dimensions: calculate_plot_dimensions                            *)

\* faulty variant: the ratio is taken the wrong way round
calculate_plot_dimensions_inverted(max_dim, ddx, ddy) ==
    IF RLe(ddy, ddx)
    THEN IF RIsZero(ddy) THEN Raise("ZeroDivisionError")
         ELSE Return(<<max_dim, RDiv(RMul(max_dim, ddx), ddy)>>)
    ELSE IF RIsZero(ddx) THEN Raise("ZeroDivisionError")
         ELSE Return(<<RDiv(RMul(max_dim, ddy), ddx), max_dim>>)

\* calculate_plot_dimensions(plot_max_dim, dx, dy); a float division by zero
\* raises ZeroDivisionError
calculate_plot_dimensions(max_dim, ddx, ddy) ==
    IF RLe(ddy, ddx)
    THEN LET plot_width_in == max_dim
         IN  IF RIsZero(ddx) THEN Raise("ZeroDivisionError")
             ELSE Return(<<plot_width_in, RDiv(RMul(plot_width_in, ddy), ddx)>>)
    ELSE LET plot_height_in == max_dim
         IN  IF RIsZero(ddy) THEN Raise("ZeroDivisionError")
             ELSE Return(<<RDiv(RMul(plot_height_in, ddx), ddy), plot_height_in>>)

MaxPlotDim == 2

\* --dim: the default of 10 inches and a few others
PlotDims == { RInt(10) } \cup { Rat(k, 2) : k \in 1..MaxPlotDim }
AnyRanges == { RInt(k) : k \in (-MaxExtent)..MaxExtent }

InitDims ==
    /\ plot_max_dim \in PlotDims
    /\ dx \in AnyRanges
    /\ dy \in AnyRanges
    /\ figsize = None
    /\ dims_pc = "start"
    /\ IdleScale /\ IdleStyle /\ IdleGeom /\ IdleTr /\ IdleMain

\* a call of calculate_plot_dimensions(plot_max_dim, dx, dy)
CalculatePlotDimensions ==
    /\ dims_pc = "start"
    /\ figsize' = calculate_plot_dimensions(plot_max_dim, dx, dy)
    /\ dims_pc' = "done"
    /\ UNCHANGED <<plot_max_dim, dx, dy>>
    /\ UNCHANGED <<scaleVars, styleVars, geomVars, trVars, mainVars>>

NextDims == CalculatePlotDimensions

SpecDims == InitDims /\ [][NextDims]_vars

\* C8: for plot_max_dim, dx, dy > 0 calculate_plot_dimensions returns
\* (width, height) with max(width, height) = plot_max_dim, both positive,
\* width * dy = height * dx, and width = plot_max_dim exactly when dx >= dy
\* (height = plot_max_dim otherwise).
C8_Dimensions ==
    (dims_pc = "done" /\ Positive(dx) /\ Positive(dy)) =>
        /\ figsize.kind = "return"
        /\ LET width == figsize.value[1]
               height == figsize.value[2]
           IN  /\ RMax(width, height) = plot_max_dim
               /\ Positive(width) /\ Positive(height)
               /\ RMul(width, dy) = RMul(height, dx)
               /\ (width = plot_max_dim) <=> RLe(dy, dx)
               /\ ~RLe(dy, dx) => height = plot_max_dim

\* calculate_plot_dimensions(10, 1, 2) = (5, 10)
C8_Witness ==
    /\ dims_pc = "done"
    /\ plot_max_dim = RInt(10) /\ dx = RInt(1) /\ dy = RInt(2)
    /\ figsize = Return(<<RInt(5), RInt(10)>>)

\* C9 as claimed: calculate_plot_dimensions fails whenever dx <= 0 or dy <= 0,
\* and never returns a (width, height) pair for such arguments.
C9_NonPositiveRangeRaises ==
    (dims_pc = "done" /\ (~Positive(dx) \/ ~Positive(dy))) => figsize.kind = "raise"

-----------------------------------------------------------------------------
(* The script make_maps.py                                                 *)

MaxPlaces == 2

\* place names, as the sequences of their characters
PlaceNames == { <<"a", "b">>, <<"a", " ", "b">>, <<"c">> }
\* bounding boxes in degrees: a valid one, and one with west = east
PlaceBoxes ==
    { [west |-> -1, east |-> 1, south |-> -1, north |-> 1],
      [west |-> 1, east |-> 1, south |-> 0, north |-> 1] }
Places ==
    { [name |-> nm, west |-> b.west, east |-> b.east,
       south |-> b.south, north |-> b.north] : nm \in PlaceNames, b \in PlaceBoxes }

\* tiles.json (make_maps.py:40-41): background name -> URL template
tiles ==
    [ StamenTonerLite |-> [template |-> "StamenTonerLite", api_key |-> "API_KEY"],
      GoogleMaps      |-> [template |-> "GoogleMaps", api_key |-> "none"],
      EsriSatellite   |-> [template |-> "EsriSatellite", api_key |-> "none"] ]
\* "stamen" in background.lower()
IsStamen(bg) == bg \in {"StamenTonerLite"}
\* the URL make_maps.py:49 builds: the background's template with the
\* placeholder API_KEY replaced by the key of the environment
WithStamenKey(bg) == [tiles[bg] EXCEPT !.api_key = "STAMEN_API_KEY"]

\* build_style_dict(plot_dim): the style table
build_style_dict == styles

\* lonlat_to_xy(lon, lat) on whole degrees near the equator: EPSG:3857 metres,
\* rounded to the metre
lonlat_to_xy(lon, lat) ==
    << RInt(111319 * lon),
       RInt(CASE lat = 0 -> 0 [] lat = 1 -> 111325 [] lat = -1 -> -111325) >>

\* get_plot_width_km(west, east, south, north): the geodesic length of the
\* parallel between the two meridians, 111.32 km per degree at these latitudes
get_plot_width_km(west, east, south, north) ==
    RMul(Rat(11132, 100), RInt(Abs(east - west)))

\* the features ox.features.features_from_bbox may return; named says that the
\* name column holds a string, not the float NaN of a missing value
PeakNode ==
    [element_type |-> "node", named |-> TRUE, name |-> "peak",
     geometry |-> [geom_type |-> "Point", coords |-> << <<2, 1>> >>],
     items |-> << <<"natural", "peak">>, <<"name", "peak">> >>]
LakeWay ==
    [element_type |-> "way", named |-> FALSE, name |-> "nan",
     geometry |-> [geom_type |-> "Polygon",
                   exterior |-> << <<0, 0>>, <<4, 0>>, <<0, 4>>, <<0, 0>> >>,
                   interiors |-> << << <<1, 1>>, <<2, 1>>, <<1, 2>>, <<1, 1>> >> >>],
     items |-> << <<"natural", "water">>, <<"waterway", "stream">> >>]
TrailRelation ==
    [element_type |-> "relation", named |-> TRUE, name |-> "trail",
     geometry |-> [geom_type |-> "MultiLineString",
                   geoms |-> << [geom_type |-> "LineString",
                                 coords |-> << <<0, 0>>, <<1, 1>> >>] >>],
     items |-> << <<"highway", "path">> >>]
FeatureLists == { <<>>, <<PeakNode>>, <<LakeWay, PeakNode>>, <<TrailRelation>> }

\* place_name.replace(' ', '')
RemoveSpaces(name) == SelectSeq(name, LAMBDA c : c # " ")

\* make_maps.py:140: f"{map_folder}/{place_name.replace(' ', '')}.png"
MapPath(name) == <<"maps", "/">> \o RemoveSpaces(name) \o <<".png">>

\* the loop of make_maps.py:100-114 from element k on: each ring of each
\* element is plotted with the element's style, and a named node is labelled
\* at the first point of the ring plotted last (x, y of line 105; xy is <<>>
\* as long as no ring was plotted and no assignment has bound them)
RECURSIVE PlotFrom(_, _, _, _)
PlotFrom(es, k, drawn, xy) ==
    IF k > Len(es) THEN Return(drawn)
    ELSE LET r == extract_coords(es[k].geometry)
         IN  IF r.kind = "raise" THEN r
             ELSE LET rings == [j \in 1..Len(r.value) |->
                                  [plot |-> r.value[j],
                                   style |-> get_style(es[k].items)]]
                      last == IF Len(r.value) > 0 THEN r.value[Len(r.value)] ELSE xy
                  IN  IF es[k].element_type = "node" /\ es[k].named
                      THEN IF Len(last) = 0 THEN Raise("NameError")
                           ELSE PlotFrom(es, k + 1,
                                  (drawn \o rings)
                                     \o << [annotate |-> es[k].name, at |-> last[1]] >>,
                                  last)
                      ELSE PlotFrom(es, k + 1, drawn \o rings, last)

InitMain ==
    /\ places \in SeqsUpTo(Places, MaxPlaces)
    /\ background \in DOMAIN tiles
    /\ stamen_key_in_env \in BOOLEAN
    /\ tiles_source = None
    /\ pc = "start"
    /\ place_idx = 0
    /\ elements = None
    /\ canvas = None
    /\ files = {}
    /\ saved = <<>>
    /\ error = None

Init ==
    /\ InitMain
    /\ IdleScale /\ IdleRange /\ IdleStyle /\ IdleGeom /\ IdleTr /\ IdleDims

helperPcs == <<scale_pc, style_pc, geom_pc, tr_pc, dims_pc>>
helperOnly == <<styleVars, geomVars, tr_in, tr_mid, tr_out, plot_max_dim,
                max_width_pct, helperPcs>>
runConfig == <<places, stamen_key_in_env>>
placeLocals == <<x_min, x_max, y_min, y_max, dx, dy, figsize,
                 plot_width_km, scale_dimesion_km, bar>>

\* an uncaught exception ends the script
Crash(exc) ==
    /\ pc' = "crashed"
    /\ error' = exc

\* make_maps.py:45-56: the tile URL
ResolveTiles ==
    /\ pc = "start"
    /\ IF IsStamen(background)
       THEN IF stamen_key_in_env
            THEN /\ tiles_source' = WithStamenKey(background)
                 /\ UNCHANGED background
            ELSE /\ background' = "GoogleMaps"
                 /\ tiles_source' = tiles["GoogleMaps"]
       ELSE UNCHANGED <<background, tiles_source>>
    /\ pc' = "setup"
    /\ UNCHANGED <<runConfig, place_idx, elements, canvas, files, saved, error>>
    /\ UNCHANGED <<placeLocals, helperOnly>>

\* make_maps.py:59-66: the style table and the output folder
Setup ==
    /\ pc = "setup"
    /\ pc' = "next_place"
    /\ UNCHANGED <<runConfig, background, tiles_source, place_idx, elements, canvas,
                   files, saved, error>>
    /\ UNCHANGED <<placeLocals, helperOnly>>

\* make_maps.py:68: the head of the loop over places
NextPlace ==
    /\ pc = "next_place"
    /\ IF place_idx < Len(places)
       THEN /\ place_idx' = place_idx + 1
            /\ pc' = "extent"
       ELSE /\ pc' = "done"
            /\ UNCHANGED place_idx
    /\ UNCHANGED <<runConfig, background, tiles_source, elements, canvas,
                   files, saved, error>>
    /\ UNCHANGED <<placeLocals, helperOnly>>

\* make_maps.py:71-79: the extent and the figure size
ComputeExtent ==
    /\ pc = "extent"
    /\ LET place == places[place_idx]
           sw == lonlat_to_xy(place.west, place.south)
           ne == lonlat_to_xy(place.east, place.north)
           ddy == RSub(ne[2], sw[2])
           ddx == RSub(ne[1], sw[1])
           r == calculate_plot_dimensions(RInt(10), ddx, ddy)
       IN  /\ x_min' = sw[1] /\ y_min' = sw[2]
           /\ x_max' = ne[1] /\ y_max' = ne[2]
           /\ dy' = ddy /\ dx' = ddx
           /\ IF r.kind = "raise"
              THEN /\ Crash(r.exc)
                   /\ UNCHANGED figsize
              ELSE /\ figsize' = r.value
                   /\ pc' = "fetch"
                   /\ UNCHANGED error
    /\ UNCHANGED <<runConfig, background, tiles_source, place_idx, elements, canvas,
                   files, saved>>
    /\ UNCHANGED <<plot_width_km, scale_dimesion_km, bar, helperOnly>>

\* make_maps.py:82-89: the features of the place, or the server's failure
FetchFeatures ==
    /\ pc = "fetch"
    /\ \/ /\ elements' \in FeatureLists
          /\ pc' = "basemap"
          /\ UNCHANGED error
       \/ /\ Crash("FetchError")
          /\ UNCHANGED elements
    /\ UNCHANGED <<runConfig, background, tiles_source, place_idx, canvas, files, saved>>
    /\ UNCHANGED <<placeLocals, helperOnly>>

\* make_maps.py:92-97: the figure and its background tiles; reading the name
\* tiles_source before any assignment to it raises NameError
AddBasemap ==
    /\ pc = "basemap"
    /\ \/ /\ tiles_source = None
          /\ Crash("NameError")
          /\ UNCHANGED canvas
       \/ /\ tiles_source # None
          /\ canvas' = [figsize |-> figsize, basemap |-> tiles_source,
                        plotted |-> <<>>, annotations |-> <<>>]
          /\ pc' = "plot"
          /\ UNCHANGED error
       \/ /\ tiles_source # None
          /\ Crash("FetchError")
          /\ UNCHANGED canvas
    /\ UNCHANGED <<runConfig, background, tiles_source, place_idx, elements, files, saved>>
    /\ UNCHANGED <<placeLocals, helperOnly>>

\* make_maps.py:100-114: every ring of every feature, in its style
PlotFeatures ==
    /\ pc = "plot"
    /\ LET r == PlotFrom(elements, 1, <<>>, <<>>)
       IN  IF r.kind = "raise"
           THEN /\ Crash(r.exc)
                /\ UNCHANGED canvas
           ELSE /\ canvas' = [canvas EXCEPT !.plotted = r.value]
                /\ pc' = "annotate"
                /\ UNCHANGED error
    /\ UNCHANGED <<runConfig, background, tiles_source, place_idx, elements, files, saved>>
    /\ UNCHANGED <<placeLocals, helperOnly>>

\* make_maps.py:115-137: legend, scale bar and title; add_scale_bar divides by
\* plot_width_km
Annotate ==
    /\ pc = "annotate"
    /\ LET place == places[place_idx]
           w == get_plot_width_km(place.west, place.east, place.south, place.north)
           scale_max_width_pct == Rat(15, 100)
           scale_anchor_xy ==
               fig_to_xy(RSub(RInt(1), scale_max_width_pct), Rat(25, 1000),
                         x_min, x_max, y_min, y_max).value
           r == add_scale_bar(scale_max_width_pct, w, dx, dy)
           title_xy == fig_to_xy(Rat(1, 2), Rat(9, 10),
                                 x_min, x_max, y_min, y_max).value
       IN  /\ plot_width_km' = w
           /\ IF r.kind = "raise"
              THEN /\ Crash(r.exc)
                   /\ UNCHANGED <<scale_dimesion_km, bar, canvas>>
              ELSE /\ scale_dimesion_km' = r.value.scale_dimesion_km
                   /\ bar' = [width |-> r.value.width, height |-> r.value.height]
                   /\ canvas' = [canvas EXCEPT !.annotations =
                          << [legend |-> <<0, 0>>],
                             [bar |-> bar', at |-> scale_anchor_xy,
                              label |-> r.value.scale_dimesion_km],
                             [title |-> place.name, at |-> title_xy] >>]
                   /\ pc' = "save"
                   /\ UNCHANGED error
    /\ UNCHANGED <<runConfig, background, tiles_source, place_idx, elements, files, saved>>
    /\ UNCHANGED <<x_min, x_max, y_min, y_max, dx, dy, figsize, helperOnly>>

\* make_maps.py:139-142: the image is written to the place's path, replacing
\* a file already there
SaveMap ==
    /\ pc = "save"
    /\ \/ /\ LET path == MapPath(places[place_idx].name)
             IN  files' = { f \in files : f.path # path }
                          \cup { [path |-> path, place |-> place_idx, image |-> canvas] }
          /\ saved' = Append(saved, place_idx)
          /\ pc' = "next_place"
          /\ UNCHANGED error
       \/ /\ Crash("OSError")
          /\ UNCHANGED <<files, saved>>
    /\ UNCHANGED <<runConfig, background, tiles_source, place_idx, elements, canvas>>
    /\ UNCHANGED <<placeLocals, helperOnly>>

Next ==
    \/ ResolveTiles \/ Setup \/ NextPlace \/ ComputeExtent \/ FetchFeatures
    \/ AddBasemap \/ PlotFeatures \/ Annotate \/ SaveMap

Spec == Init /\ [][Next]_vars

DistinctNames ==
    \A j, k \in DOMAIN places : j # k => places[j].name # places[k].name

\* C10 as claimed: after a run in which every stage succeeded, over places with
\* pairwise distinct names, there is one image file per place: the places'
\* paths are pairwise distinct, and every place's image is still there.
C10_OneFilePerPlace ==
    (pc = "done" /\ DistinctNames) =>
        /\ Cardinality(files) = Len(places)
        /\ \A j \in DOMAIN places : \E f \in files : f.place = j

\* C11 as claimed: whenever the script is about to draw a place's basemap, a
\* tile source is bound: for a Stamen background (the key was in the
\* environment, the background is unchanged) the template with the key
\* substituted, and otherwise (the background needs no key, or GoogleMaps has
\* replaced a Stamen background whose key was absent) the template of the
\* effective background.
C11_TileSourceBound ==
    pc = "basemap" =>
        /\ tiles_source # None
        /\ IF IsStamen(background)
           THEN stamen_key_in_env /\ tiles_source = WithStamenKey(background)
           ELSE tiles_source = tiles[background]

====
